---- MODULE Spec2Model ----
(***************************************************************************)
(* Auto-Claude MCP server (src/server.py): call_tool translates a named    *)
(* tool call into a command line, run_auto_claude_command runs it as a     *)
(* child process with a 300 s bound and the outcome is rendered as text.   *)
(*                                                                         *)
(* Python values are tagged tuples: None, Str(s), Bool(b).  A captured     *)
(* stream is a sequence of characters; a Response is a sequence of text    *)
(* pieces (literal fragments, interpolated values and characters).         *)
(***************************************************************************)
EXTENDS Integers, Sequences, FiniteSets, TLC

\* ------------------------------------------------------------------ bounds
NumInvocations == 2     \* invocations the hosting layer may have in flight
MaxOut == 1             \* bytes a child writes to each of its streams
TickSeconds == 150      \* granularity of the wall clock
TIMEOUT == 300          \* subprocess.run(timeout=300)

Invocations == 1 .. NumInvocations

\* ----------------------------------------------------------- Python values
None == <<"none">>
Str(s) == <<"str", s>>
Bool(b) == <<"bool", b>>

IsStr(v) == v[1] = "str"

\* Python truthiness of None, a str and a bool
Truthy(v) ==
    CASE v[1] = "none" -> FALSE
      [] v[1] = "str"  -> v[2] # ""
      [] v[1] = "bool" -> v[2]

\* a or b
PyOr(a, b) == IF Truthy(a) THEN a ELSE b

\* arguments is a dict in insertion order: a sequence of <<key, value>>
RECURSIVE Get(_, _)
Get(arguments, key) ==
    IF arguments = <<>> THEN None
    ELSE IF Head(arguments)[1] = key THEN Head(arguments)[2]
    ELSE Get(Tail(arguments), key)

\* d[key] = value on a dict modelled as a function
SetItem(d, key, value) ==
    [k \in DOMAIN d \cup {key} |-> IF k = key THEN value ELSE d[k]]

\* --------------------------------------------------------- tool registry
\* list_tools: the declared names, in order
ToolNames ==
    << "list_specs", "list_worktrees", "batch_status", "review_spec",
       "qa_status", "review_status", "merge_preview", "merge_worktree",
       "run_build", "run_qa", "run_followup", "discard_worktree" >>

DeclaredTools == { ToolNames[n] : n \in DOMAIN ToolNames }

\* inputSchema "required" of each tool
Required(name) ==
    IF name \in DeclaredTools
                \ {"list_specs", "list_worktrees", "batch_status"}
    THEN {"spec"} ELSE {}

\* inputSchema "properties" of each tool, in declared order
Properties(name) ==
    CASE name \in {"list_specs", "list_worktrees", "batch_status"} ->
            <<"project_dir">>
      [] name \in {"review_spec", "qa_status", "review_status",
                   "discard_worktree"} ->
            <<"project_dir", "spec">>
      [] name = "merge_preview" -> <<"project_dir", "spec", "base_branch">>
      [] name = "merge_worktree" ->
            <<"project_dir", "spec", "no_commit", "base_branch">>
      [] name = "run_build" ->
            <<"project_dir", "spec", "model", "isolated", "direct", "skip_qa">>
      [] name \in {"run_qa", "run_followup"} ->
            <<"project_dir", "spec", "model">>

\* ------------------------------------------------------ command translator
\* if arguments.get(key): args.extend([flag, arguments[key]])
ExtendAlways(args, arguments, key, flag) ==
    args \o <<Str(flag), Get(arguments, key)>>
ExtendIf(args, arguments, key, flag) ==
    IF Truthy(Get(arguments, key))
    THEN args \o <<Str(flag), Get(arguments, key)>>
    ELSE args

\* if arguments.get(key): args.append(flag)
AppendIfAlways(args, arguments, key, flag) == Append(args, Str(flag))
AppendIf(args, arguments, key, flag) ==
    IF Truthy(Get(arguments, key)) THEN Append(args, Str(flag)) ELSE args

\* the if/elif chain of call_tool has a branch for this name
HasBranchAny(name) == TRUE
HasBranch(name) == name \in DeclaredTools

\* the args list each branch of call_tool hands to run_auto_claude_command
ToolArgs(name, arguments) ==
    LET spec == Get(arguments, "spec") IN
    CASE name = "list_specs" -> <<Str("--list")>>
      [] name = "list_worktrees" -> <<Str("--list-worktrees")>>
      [] name = "batch_status" -> <<Str("--batch-status")>>
      [] name = "review_spec" -> <<Str("--spec"), spec, Str("--review")>>
      [] name = "qa_status" -> <<Str("--spec"), spec, Str("--qa-status")>>
      [] name = "review_status" ->
            <<Str("--spec"), spec, Str("--review-status")>>
      [] name = "merge_preview" ->
            ExtendIf(<<Str("--spec"), spec, Str("--merge-preview")>>,
                     arguments, "base_branch", "--base-branch")
      [] name = "merge_worktree" ->
            ExtendIf(
              AppendIf(<<Str("--spec"), spec, Str("--merge")>>,
                       arguments, "no_commit", "--no-commit"),
              arguments, "base_branch", "--base-branch")
      [] name = "run_build" ->
            AppendIf(
              AppendIf(
                AppendIf(
                  ExtendIf(<<Str("--spec"), spec, Str("--auto-continue")>>,
                           arguments, "model", "--model"),
                  arguments, "isolated", "--isolated"),
                arguments, "direct", "--direct"),
              arguments, "skip_qa", "--skip-qa")
      [] name = "run_qa" ->
            ExtendIf(<<Str("--spec"), spec, Str("--qa")>>,
                     arguments, "model", "--model")
      [] name = "run_followup" ->
            ExtendIf(<<Str("--spec"), spec, Str("--followup")>>,
                     arguments, "model", "--model")
      [] name = "discard_worktree" ->
            <<Str("--spec"), spec, Str("--discard"), Str("--force")>>
      [] OTHER -> <<>>

\* ---------------------------------------------------------- process runner
SysExecutable == "python3"
DefaultBackend ==
    "/Users/benjaminwesleythomas/GitProjects/Auto-Claude/apps/backend"
Getcwd == "/srv"                     \* os.getcwd() of the adapter
NL == "\n"

\* AUTO_CLAUDE_BACKEND = Path(os.environ.get("AUTO_CLAUDE_BACKEND", default))
BackendOf(environ) ==
    IF "AUTO_CLAUDE_BACKEND" \in DOMAIN environ
    THEN environ["AUTO_CLAUDE_BACKEND"][2]
    ELSE DefaultBackend

\* cmd = [sys.executable, str(AUTO_CLAUDE_BACKEND / "run.py")] + args
BuildCmd(backend, args) ==
    <<Str(SysExecutable), Str(backend \o "/run.py")>> \o args

\* env = os.environ.copy(); if project_dir: env["PWD"] = project_dir
\* gives the child's env and what the write leaves in os.environ
PrepareEnvAliased(environ, project_dir) ==
    LET e == IF Truthy(project_dir)
             THEN SetItem(environ, "PWD", project_dir) ELSE environ
    IN  [env |-> e, environ |-> e]
PrepareEnv(environ, project_dir) ==
    [env |-> IF Truthy(project_dir)
             THEN SetItem(environ, "PWD", project_dir) ELSE environ,
     environ |-> environ]

\* cwd=project_dir or os.getcwd()
ChildCwdIfPresent(project_dir) ==
    IF project_dir # None THEN project_dir ELSE Str(Getcwd)
ChildCwd(project_dir) == PyOr(project_dir, Str(Getcwd))

\* the exceptions subprocess.run raises here
TimeoutExpired == [type |-> "TimeoutExpired", msg |-> "timed out after 300 seconds"]
TypeError ==
    [type |-> "TypeError",
     msg |-> "expected str, bytes or os.PathLike object, not NoneType"]
OSError == [type |-> "OSError", msg |-> "[Errno 2] No such file or directory"]
UnicodeDecodeError ==
    [type |-> "UnicodeDecodeError",
     msg |-> "'utf-8' codec can't decode byte 0xff: invalid start byte"]

TimeoutMessage == "Command timed out after 5 minutes"

\* the return of the try body
CompletedResult(returncode, stdout, stderr) ==
    [success |-> returncode = 0, stdout |-> stdout, stderr |-> stderr,
     returncode |-> returncode]

\* "except subprocess.TimeoutExpired" and "except Exception" between them
\* catch every exception type subprocess.run raises
CaughtOSErrorOnly(e) == e.type \in {"TimeoutExpired", "OSError"}
Caught(e) ==
    e.type \in {"TimeoutExpired", "TypeError", "OSError", "UnicodeDecodeError"}

\* the two except clauses
HandleExceptionGeneric(e) ==
    [success |-> FALSE, error |-> e.msg, stdout |-> <<>>, stderr |-> <<>>]
HandleException(e) ==
    IF e.type = "TimeoutExpired"
    THEN [success |-> FALSE, error |-> TimeoutMessage,
          stdout |-> <<>>, stderr |-> <<>>]
    ELSE [success |-> FALSE, error |-> e.msg,
          stdout |-> <<>>, stderr |-> <<>>]

\* process.kill() in subprocess.run's TimeoutExpired handler
ProcessAbandon(state) == state
ProcessKill(state) == IF state = "running" THEN "killed" ELSE state

\* text=True: the captured bytes are decoded strictly (UTF-8)
Decodable(bytes) == \A n \in DOMAIN bytes : bytes[n] < 128
Chr(b) == IF b = 111 THEN "o" ELSE IF b = 10 THEN NL ELSE "?"
Decode(bytes) == [n \in DOMAIN bytes |-> Chr(bytes[n])]

\* ------------------------------------------------------ response formatter
SuccessMarker == "(U+2713) Command succeeded"
FailMarker == "(U+2717) Command failed"

\* "\n".join(output)
RECURSIVE Join(_)
Join(output) ==
    IF output = <<>> THEN <<>>
    ELSE IF Len(output) = 1 THEN output[1]
    ELSE output[1] \o <<NL>> \o Join(Tail(output))

\* the list `output` of call_tool
OutputParts(result) ==
    (IF result.success
     THEN << <<SuccessMarker>> >>
     ELSE << <<FailMarker>> >> \o
          (IF "error" \in DOMAIN result /\ result.error # ""
           THEN << <<"Error: ", result.error>> >> ELSE <<>>))
    \o (IF result.stdout # <<>> THEN << <<NL>> \o result.stdout >> ELSE <<>>)
    \o (IF result.stderr # <<>>
        THEN << <<NL, "Stderr:", NL>> \o result.stderr >> ELSE <<>>)

FormatResponse(result) == Join(OutputParts(result))

UnknownToolResponse(name) == <<"Unknown tool: ", name>>

\* ------------------------------------------------------------------ inputs
Absent == <<"absent">>
OtherTool == "deploy"                \* a name list_tools does not declare
CallNames == DeclaredTools \cup {OtherTool}

\* the values a caller supplies under each argument name
ValuesOf(key) ==
    CASE key = "project_dir" -> {Str(""), Str("/proj")}
      [] key = "spec" -> {Str(""), Str("001")}
      [] key = "model" -> {Str("m1"), Str("--isolated")}
      [] key = "base_branch" -> {Str("main")}
      [] OTHER -> {Bool(TRUE), Bool(FALSE)}

SuppliedKeys(name) ==
    IF name \in DeclaredTools THEN Properties(name)
    ELSE <<"project_dir", "spec">>

Reverse(s) == [n \in DOMAIN s |-> s[Len(s) + 1 - n]]

\* the argument dict that supplies keys[n] with f[n], the Absent ones left out
Items(keys, f) ==
    SelectSeq([n \in DOMAIN keys |-> <<keys[n], f[n]>>],
              LAMBDA kv : kv[2] # Absent)

\* every argument dict over the tool's properties: each one absent or
\* present, supplied in declared order or in the opposite order
ArgumentDicts(name) ==
    LET keys == SuppliedKeys(name)
        picks == { f \in [DOMAIN keys ->
                            UNION { ValuesOf(keys[n]) : n \in DOMAIN keys }
                              \cup {Absent}] :
                     \A n \in DOMAIN keys :
                        f[n] \in ValuesOf(keys[n]) \cup {Absent} }
    IN  { Items(keys, f) : f \in picks }
          \cup { Reverse(Items(keys, f)) : f \in picks }

\* the dicts among them that supply the optional arguments other than
\* project_dir and spec all together, truthy, or not at all
OptionsOf(key) ==
    CASE key = "model" -> Str("m1")
      [] key = "base_branch" -> Str("main")
      [] OTHER -> Bool(TRUE)

LifecycleDicts(name) ==
    LET keys == SuppliedKeys(name)
        Pick(pd, spec, opt) ==
            [n \in DOMAIN keys |->
                CASE keys[n] = "project_dir" -> pd
                  [] keys[n] = "spec" -> spec
                  [] OTHER -> IF opt THEN OptionsOf(keys[n]) ELSE Absent]
    IN  { Items(keys, Pick(pd, spec, opt)) :
            pd \in ValuesOf("project_dir") \cup {Absent},
            spec \in ValuesOf("spec") \cup {Absent},
            opt \in BOOLEAN }

\* two tools, with and without a project directory
ConcurrentNames == {"list_specs", "review_spec"}
ConcurrentDicts(name) ==
    { d \in LifecycleDicts(name) :
        /\ Get(d, "project_dir") # Str("")
        /\ "spec" \in Required(name) <=> Get(d, "spec") = Str("001") }

\* the environments the adapter may be started in
StartEnvirons ==
    { [HOME |-> Str("/root"), PWD |-> Str(Getcwd)],
      [HOME |-> Str("/root"), AUTO_CLAUDE_BACKEND |-> Str("/opt/ac")] }

ExitCodes == {0, 1}
Bytes == {111, 255}

\* ------------------------------------------------------------------- state
VARIABLES
    os_environ,     \* os.environ of the adapter process
    backend,        \* AUTO_CLAUDE_BACKEND, read once at import
    frame,          \* frame[i]: the locals of invocation i of call_tool
    proc            \* proc[i]: the child process of invocation i

vars == <<os_environ, backend, frame, proc>>

IdleFrame ==
    [pc |-> "idle", name |-> "", arguments |-> <<>>, project_dir |-> None,
     cmd |-> <<>>, env |-> <<>>, exc |-> "", result |-> <<>>,
     response |-> <<>>, launches |-> 0, responses |-> 0]

NoProc ==
    [state |-> "none", cmd |-> <<>>, cwd |-> None, env |-> <<>>,
     stdout |-> <<>>, stderr |-> <<>>, returncode |-> 0, elapsed |-> 0]

Init ==
    /\ os_environ \in StartEnvirons
    /\ backend = BackendOf(os_environ)
    /\ frame = [i \in Invocations |-> IdleFrame]
    /\ proc = [i \in Invocations |-> NoProc]

\* ----------------------------------------------------------------- actions
\* call_tool(name, arguments) up to the call of subprocess.run:
\* lines 315-379 and, inside run_auto_claude_command, lines 31-35
Call(i, name, arguments) ==
    /\ frame[i].pc = "idle"
    /\ LET project_dir == Get(arguments, "project_dir")
           prepared == PrepareEnv(os_environ, project_dir)
       IN  IF HasBranch(name)
           THEN /\ frame' = [frame EXCEPT ![i] =
                      [@ EXCEPT !.pc = "run", !.name = name,
                                !.arguments = arguments,
                                !.project_dir = project_dir,
                                !.cmd = BuildCmd(backend,
                                                 ToolArgs(name, arguments)),
                                !.env = prepared.env]]
                /\ os_environ' = prepared.environ
           ELSE /\ frame' = [frame EXCEPT ![i] =
                      [@ EXCEPT !.pc = "done", !.name = name,
                                !.arguments = arguments,
                                !.project_dir = project_dir,
                                !.response = UnknownToolResponse(name),
                                !.responses = @ + 1]]
                /\ os_environ' = os_environ
    /\ UNCHANGED <<backend, proc>>

\* where run_auto_claude_command goes once subprocess.run has raised e:
\* an exception no clause catches leaves call_tool without a Response
Raise(i, e) ==
    IF Caught(e)
    THEN [frame EXCEPT ![i] =
            [@ EXCEPT !.pc = "format", !.exc = e.type,
                      !.result = HandleException(e)]]
    ELSE [frame EXCEPT ![i] = [@ EXCEPT !.pc = "raised", !.exc = e.type]]

\* subprocess.run starts the child (Popen): a token, the cwd or an env
\* value that is no str raises TypeError before any process exists; the
\* operating system may refuse to start it (OSError); else the child runs
Launch(i) ==
    /\ frame[i].pc = "run"
    /\ LET f == frame[i]
           cwd == ChildCwd(f.project_dir)
       IN  IF \/ \E n \in DOMAIN f.cmd : ~IsStr(f.cmd[n])
              \/ ~IsStr(cwd)
              \/ \E k \in DOMAIN f.env : ~IsStr(f.env[k])
           THEN /\ frame' = Raise(i, TypeError)
                /\ proc' = proc
           ELSE \/ /\ frame' = Raise(i, OSError)
                   /\ proc' = proc
                \/ /\ frame' = [frame EXCEPT ![i] =
                          [@ EXCEPT !.pc = "wait", !.launches = @ + 1]]
                   /\ proc' = [proc EXCEPT ![i] =
                          [NoProc EXCEPT !.state = "running", !.cmd = f.cmd,
                                         !.cwd = cwd, !.env = f.env]]
    /\ UNCHANGED <<os_environ, backend>>

\* the external program writes a byte to its stdout or its stderr
ChildWrite(i, b) ==
    /\ proc[i].state = "running"
    /\ Len(proc[i].stdout) + Len(proc[i].stderr) < MaxOut
    /\ \/ proc' = [proc EXCEPT ![i].stdout = Append(@, b)]
       \/ proc' = [proc EXCEPT ![i].stderr = Append(@, b)]
    /\ UNCHANGED <<os_environ, backend, frame>>

\* the external program exits
ChildExit(i, returncode) ==
    /\ proc[i].state = "running"
    /\ proc' = [proc EXCEPT ![i].state = "exited",
                            ![i].returncode = returncode]
    /\ UNCHANGED <<os_environ, backend, frame>>

\* wall-clock time passes while subprocess.run waits for the child
Tick(i) ==
    /\ frame[i].pc = "wait"
    /\ proc[i].state = "running"
    /\ proc[i].elapsed < TIMEOUT
    /\ proc' = [proc EXCEPT ![i].elapsed = @ + TickSeconds]
    /\ UNCHANGED <<os_environ, backend, frame>>

\* subprocess.run returns: the child has exited and its output is decoded
Complete(i) ==
    /\ frame[i].pc = "wait"
    /\ proc[i].state = "exited"
    /\ IF Decodable(proc[i].stdout) /\ Decodable(proc[i].stderr)
       THEN frame' = [frame EXCEPT ![i] =
                [@ EXCEPT !.pc = "format",
                          !.result = CompletedResult(proc[i].returncode,
                                                     Decode(proc[i].stdout),
                                                     Decode(proc[i].stderr))]]
       ELSE frame' = Raise(i, UnicodeDecodeError)
    /\ UNCHANGED <<os_environ, backend, proc>>

\* the child is still running after 300 s: subprocess.run kills it and
\* raises TimeoutExpired
Timeout(i) ==
    /\ frame[i].pc = "wait"
    /\ proc[i].state = "running"
    /\ proc[i].elapsed >= TIMEOUT
    /\ proc' = [proc EXCEPT ![i].state = ProcessKill(@)]
    /\ frame' = Raise(i, TimeoutExpired)
    /\ UNCHANGED <<os_environ, backend>>

\* call_tool formats the result and returns the Response (lines 381-395)
Format(i) ==
    /\ frame[i].pc = "format"
    /\ frame' = [frame EXCEPT ![i] =
            [@ EXCEPT !.pc = "done",
                      !.response = FormatResponse(frame[i].result),
                      !.responses = @ + 1]]
    /\ UNCHANGED <<os_environ, backend, proc>>

\* the invocation is over; the hosting layer dispatches the next request
NextRequest(i) ==
    /\ frame[i].pc \in {"done", "raised"}
    /\ frame' = [frame EXCEPT ![i] = IdleFrame]
    /\ proc' = [proc EXCEPT ![i] = NoProc]
    /\ UNCHANGED <<os_environ, backend>>

\* ---------------------------------------------------------- specifications
\* the server as it runs: call_tool never awaits, so the event loop runs one
\* invocation at a time, from the call to the Response
Next ==
    \/ \E name \in CallNames : \E arguments \in LifecycleDicts(name) :
          Call(1, name, arguments)
    \/ Launch(1)
    \/ \E b \in Bytes : ChildWrite(1, b)
    \/ \E returncode \in ExitCodes : ChildExit(1, returncode)
    \/ Tick(1)
    \/ Complete(1)
    \/ Timeout(1)
    \/ Format(1)
    \/ NextRequest(1)

Spec == Init /\ [][Next]_vars

\* the translator on every argument dict, with a child that writes nothing
NextTranslate ==
    \/ \E name \in CallNames : \E arguments \in ArgumentDicts(name) :
          Call(1, name, arguments)
    \/ Launch(1)
    \/ ChildExit(1, 0)
    \/ Complete(1)
    \/ Format(1)
    \/ NextRequest(1)

SpecTranslate == Init /\ [][NextTranslate]_vars

\* a hosting layer that dispatches invocations concurrently (threads)
NextConcurrent ==
    \E i \in Invocations :
        \/ \E name \in ConcurrentNames :
              \E arguments \in ConcurrentDicts(name) : Call(i, name, arguments)
        \/ Launch(i)
        \/ ChildExit(i, 0)
        \/ Complete(i)
        \/ Format(i)
        \/ NextRequest(i)

SpecConcurrent == Init /\ [][NextConcurrent]_vars

\* ------------------------------------------------------------------ claims
Called(i) == frame[i].pc # "idle"
Returned(i) == frame[i].pc = "done"
HasResult(i) == frame[i].pc \in {"format", "done"} /\ HasBranch(frame[i].name)
Started(i) == proc[i].state # "none"
SpecOf(i) == Get(frame[i].arguments, "spec")

\* the tokens after [sys.executable, run.py]
ArgsOf(cmd) == SubSeq(cmd, 3, Len(cmd))
Prefix(backendPath) == <<Str(SysExecutable), Str(backendPath \o "/run.py")>>

Count(seq, x) == Cardinality({ n \in DOMAIN seq : seq[n] = x })
Contains(seq, sub) ==
    \E n \in 0 .. (Len(seq) - Len(sub)) :
        \A m \in DOMAIN sub : seq[n + m] = sub[m]

\* C1: a call of a tool that requires "spec", with spec omitted or empty, is
\* rejected before translation: no command line is built from it and no
\* child process is launched for it.
C1_RejectedBeforeTranslation ==
    \A i \in Invocations :
        ( /\ Called(i)
          /\ "spec" \in Required(frame[i].name)
          /\ SpecOf(i) \in {None, Str("")} )
        => /\ frame[i].launches = 0
           /\ ~Started(i)
           /\ frame[i].cmd = <<>>

\* C2: every result of run_auto_claude_command carries exactly one of
\* {returncode, error}, and success is true if and only if the process ran
\* to completion with exit code 0.
C2_ExactlyOneAndSuccessIff ==
    \A i \in Invocations :
        HasResult(i) =>
            LET r == frame[i].result IN
            /\ ("returncode" \in DOMAIN r) # ("error" \in DOMAIN r)
            /\ r.success <=> (proc[i].state = "exited"
                              /\ proc[i].returncode = 0)

\* C3: a timed-out invocation never has its Response delivered (nor its
\* result built) while its child process is still running.
C3_TimedOutChildTerminated ==
    \A i \in Invocations :
        (frame[i].exc = "TimeoutExpired" /\ frame[i].pc \in {"format", "done"})
        => proc[i].state # "running"

C3_Witness ==
    \E i \in Invocations :
        /\ Returned(i)
        /\ frame[i].exc = "TimeoutExpired"
        /\ proc[i].elapsed >= TIMEOUT
        /\ proc[i].state = "killed"

\* C4: on a timeout the result is a failure with empty stdout and stderr, the
\* timeout error and no returncode; the Response starts with the failure
\* marker, has the timeout message on an "Error:" line and has neither a
\* stdout section nor a "Stderr:" section, whatever the child had written.
C4_TimeoutResultAndResponse ==
    \A i \in Invocations :
        frame[i].exc = "TimeoutExpired" =>
            /\ HasResult(i) =>
                  LET r == frame[i].result IN
                  /\ DOMAIN r = {"success", "error", "stdout", "stderr"}
                  /\ ~r.success
                  /\ r.error = TimeoutMessage
                  /\ r.stdout = <<>> /\ r.stderr = <<>>
            /\ Returned(i) =>
                  LET t == frame[i].response IN
                  /\ Head(t) = FailMarker
                  /\ Contains(t, <<NL, "Error: ", TimeoutMessage>>)
                  /\ Count(t, "Stderr:") = 0
                  /\ Count(t, NL) = 1
                  /\ \A n \in DOMAIN t : t[n] \notin {"o", "?"}

C4_Witness ==
    \E i \in Invocations :
        /\ Returned(i)
        /\ frame[i].exc = "TimeoutExpired"
        /\ proc[i].stdout # <<>>
        /\ frame[i].response = <<FailMarker, NL, "Error: ", TimeoutMessage>>

\* the base flag sequence of each declared tool (spec section 6)
BaseFlags(name, id) ==
    CASE name = "list_specs" -> <<Str("--list")>>
      [] name = "list_worktrees" -> <<Str("--list-worktrees")>>
      [] name = "batch_status" -> <<Str("--batch-status")>>
      [] name = "review_spec" -> <<Str("--spec"), id, Str("--review")>>
      [] name = "qa_status" -> <<Str("--spec"), id, Str("--qa-status")>>
      [] name = "review_status" -> <<Str("--spec"), id, Str("--review-status")>>
      [] name = "merge_preview" -> <<Str("--spec"), id, Str("--merge-preview")>>
      [] name = "merge_worktree" -> <<Str("--spec"), id, Str("--merge")>>
      [] name = "run_build" -> <<Str("--spec"), id, Str("--auto-continue")>>
      [] name = "run_qa" -> <<Str("--spec"), id, Str("--qa")>>
      [] name = "run_followup" -> <<Str("--spec"), id, Str("--followup")>>
      [] name = "discard_worktree" ->
            <<Str("--spec"), id, Str("--discard"), Str("--force")>>

SuppliedNames(arguments) == { arguments[n][1] : n \in DOMAIN arguments }

\* C5: a call of a declared tool with its required arguments present and no
\* optional argument passes the external program exactly the tool's base
\* flag sequence.
C5_BaseFlagSequence ==
    \A i \in Invocations :
        ( /\ Called(i)
          /\ frame[i].name \in DeclaredTools
          /\ SuppliedNames(frame[i].arguments) = Required(frame[i].name) )
        => /\ ArgsOf(frame[i].cmd) = BaseFlags(frame[i].name, SpecOf(i))
           /\ Started(i) =>
                 ArgsOf(proc[i].cmd) = BaseFlags(frame[i].name, SpecOf(i))

C5_Witness ==
    \E i \in Invocations :
        /\ frame[i].name = "discard_worktree"
        /\ frame[i].arguments = << <<"spec", Str("001")>> >>
        /\ proc[i].state = "running"
        /\ proc[i].cmd = Prefix(backend) \o
              <<Str("--spec"), Str("001"), Str("--discard"), Str("--force")>>

\* the optional boolean arguments of a tool and their tokens, declared order
BoolFlags(name) ==
    CASE name = "merge_worktree" -> << <<"no_commit", "--no-commit">> >>
      [] name = "run_build" ->
            << <<"isolated", "--isolated">>, <<"direct", "--direct">>,
               <<"skip_qa", "--skip-qa">> >>
      [] OTHER -> <<>>

IsTrue(arguments, key) == Get(arguments, key) = Bool(TRUE)

\* the tokens of the boolean arguments that are true, in declared order
TrueFlags(name, arguments) ==
    LET on == SelectSeq(BoolFlags(name),
                        LAMBDA kt : IsTrue(arguments, kt[1]))
    IN  [n \in DOMAIN on |-> Str(on[n][2])]

\* [flag, value] of a string argument that is present and non-empty
Pair(arguments, key, flag) ==
    IF Get(arguments, key) \in {None, Str("")} THEN <<>>
    ELSE <<Str(flag), Get(arguments, key)>>

\* C6 as stated: the command line of a call with a spec identifier contains
\* the token of each optional boolean argument exactly once when the
\* argument is true and zero times when it is false or absent.
C6_TokenCountAsStated ==
    \A i \in Invocations :
        ( /\ Called(i)
          /\ frame[i].name \in {"merge_worktree", "run_build"}
          /\ SpecOf(i) = Str("001") ) =>
            \A n \in DOMAIN BoolFlags(frame[i].name) :
                LET kt == BoolFlags(frame[i].name)[n] IN
                Count(frame[i].cmd, Str(kt[2]))
                    = IF IsTrue(frame[i].arguments, kt[1]) THEN 1 ELSE 0

\* C6 amended: the translator appends the token of each optional boolean
\* argument exactly once when it is true and not at all when it is false or
\* absent, at the tool's fixed place whatever the supply order; the command
\* line contains the token that many times plus once for each string
\* argument passed through whose value is that token.
C6_FlagsAppendedInDeclaredOrder ==
    \A i \in Invocations :
        (Called(i) /\ frame[i].name \in {"merge_worktree", "run_build"}) =>
            LET a == frame[i].arguments
                base == BaseFlags(frame[i].name, SpecOf(i))
                passed == base
                            \o Pair(a, "model", "--model")
                            \o Pair(a, "base_branch", "--base-branch")
            IN
            /\ frame[i].name = "merge_worktree" =>
                  ArgsOf(frame[i].cmd) =
                      base \o TrueFlags("merge_worktree", a)
                           \o Pair(a, "base_branch", "--base-branch")
            /\ frame[i].name = "run_build" =>
                  ArgsOf(frame[i].cmd) =
                      base \o Pair(a, "model", "--model")
                           \o TrueFlags("run_build", a)
            /\ \A n \in DOMAIN BoolFlags(frame[i].name) :
                  LET kt == BoolFlags(frame[i].name)[n] IN
                  Count(ArgsOf(frame[i].cmd), Str(kt[2]))
                      = (IF IsTrue(a, kt[1]) THEN 1 ELSE 0)
                          + Count(passed, Str(kt[2]))

C6_Witness ==
    \E i \in Invocations :
        /\ frame[i].name = "run_build"
        /\ frame[i].arguments =
              << <<"skip_qa", Bool(TRUE)>>, <<"direct", Bool(FALSE)>>,
                 <<"isolated", Bool(TRUE)>>, <<"model", Str("m1")>>,
                 <<"spec", Str("001")>> >>
        /\ proc[i].state = "running"
        /\ ArgsOf(proc[i].cmd) =
              <<Str("--spec"), Str("001"), Str("--auto-continue"),
                Str("--model"), Str("m1"), Str("--isolated"), Str("--skip-qa")>>

\* C7: a call whose tool name is not declared returns a response naming the
\* unknown tool and never builds a command or launches a child, whatever
\* its arguments.
C7_UnknownToolRejected ==
    \A i \in Invocations :
        (Called(i) /\ frame[i].name \notin DeclaredTools) =>
            /\ Returned(i)
            /\ frame[i].response = <<"Unknown tool: ", frame[i].name>>
            /\ frame[i].responses = 1
            /\ frame[i].launches = 0
            /\ frame[i].cmd = <<>>
            /\ ~Started(i)

C7_Witness ==
    \E i \in Invocations :
        /\ Returned(i)
        /\ frame[i].name = OtherTool
        /\ Get(frame[i].arguments, "spec") = Str("001")
        /\ Get(frame[i].arguments, "project_dir") = Str("/proj")
        /\ frame[i].response = <<"Unknown tool: ", OtherTool>>

\* C8: an invocation launches the external program at most once, returns
\* exactly one Response, lets no exception out of call_tool, and can always
\* take its next step until it has returned.
C8_OneResponseNoRetry ==
    \A i \in Invocations :
        /\ frame[i].launches <= 1
        /\ frame[i].responses = (IF Returned(i) THEN 1 ELSE 0)
        /\ frame[i].pc # "raised"
        /\ frame[i].pc \in {"format", "done"} => ~(proc[i].state = "running")
        /\ frame[i].pc \in {"run", "wait", "format"} =>
              ENABLED (Launch(i) \/ Tick(i) \/ Timeout(i) \/ Complete(i)
                        \/ Format(i) \/ ChildExit(i, 0))

C8_Witness ==
    \E i \in Invocations :
        /\ Returned(i)
        /\ frame[i].exc = "TypeError"
        /\ frame[i].launches = 0
        /\ frame[i].responses = 1

\* C9 as stated: whenever project_dir is present the child is started in
\* project_dir with PWD = project_dir; when it is absent the child runs in
\* the adapter's directory with the adapter's environment.
C9_OverridesWhenPresent ==
    \A i \in Invocations :
        Started(i) =>
            LET pd == Get(frame[i].arguments, "project_dir") IN
            IF pd # None
            THEN /\ proc[i].cwd = pd
                 /\ proc[i].env = SetItem(os_environ, "PWD", pd)
            ELSE /\ proc[i].cwd = Str(Getcwd)
                 /\ proc[i].env = os_environ

\* C9 amended: whenever project_dir is present and non-empty the child is
\* started in project_dir with PWD = project_dir, both together; when it is
\* absent or the empty string the child runs in the adapter's directory
\* with the adapter's environment unchanged.
C9_OverridesWhenNonEmpty ==
    \A i \in Invocations :
        Started(i) =>
            LET pd == Get(frame[i].arguments, "project_dir") IN
            IF pd \notin {None, Str("")}
            THEN /\ proc[i].cwd = pd
                 /\ proc[i].env = SetItem(os_environ, "PWD", pd)
            ELSE /\ proc[i].cwd = Str(Getcwd)
                 /\ proc[i].env = os_environ

C9_Witness ==
    \E i \in Invocations :
        /\ proc[i].state = "running"
        /\ Get(frame[i].arguments, "project_dir") = Str("/proj")
        /\ "PWD" \notin DOMAIN os_environ
        /\ proc[i].cwd = Str("/proj")
        /\ proc[i].env["PWD"] = Str("/proj")

\* C10: under any interleaving the adapter's own environment stays what it
\* was at start, and each child's command line, working directory and
\* environment are those of its own invocation's arguments.
C10_InvocationsIndependent ==
    /\ os_environ \in StartEnvirons
    /\ backend = BackendOf(os_environ)
    /\ \A i \in Invocations :
          Started(i) =>
              LET a == frame[i].arguments
                  pd == Get(a, "project_dir") IN
              /\ proc[i].cmd = Prefix(BackendOf(os_environ))
                                 \o BaseFlags(frame[i].name, Get(a, "spec"))
              /\ proc[i].cwd = (IF pd = None THEN Str(Getcwd) ELSE pd)
              /\ proc[i].env = (IF pd = None THEN os_environ
                                ELSE SetItem(os_environ, "PWD", pd))

C10_Witness ==
    \E i, j \in Invocations :
        /\ proc[i].state = "running" /\ proc[j].state = "running"
        /\ Get(frame[i].arguments, "project_dir") = Str("/proj")
        /\ Get(frame[j].arguments, "project_dir") = None
        /\ proc[i].env # proc[j].env
        /\ proc[j].env = os_environ

====
